---- MODULE Spec2Model ----
(***************************************************************************)
(* Model of the style cascade of mctk (core/src/style.rs): the StyleVal    *)
(* value union and its coercions, the Style table and its builder, the     *)
(* process-wide current style behind a OnceLock<Mutex<Style>>, and the     *)
(* Styled trait's builder methods and style_val resolver.                  *)
(*                                                                         *)
(* Encoding.  Option<T> is a sequence of length 0 (None) or 1 (Some).  A   *)
(* &str that is split or compared as a class is a sequence of symbols; the *)
(* symbol " " is the space character, "\t" the tab, and a class name taken *)
(* from the built-in theme ("text-xs") is one indivisible symbol.  Struct  *)
(* and parameter names are never split and stay TLA+ strings.  A HashMap   *)
(* is a function whose DOMAIN is the set of keys present.                  *)
(***************************************************************************)
EXTENDS Integers, Sequences, FiniteSets, TLC

VARIABLES
    CURRENT_STYLE,  \* OnceLock<Mutex<Style>>: None until first access, then Some(table)
    lock,           \* the thread holding the Mutex guard, or NoThread
    widget,         \* per thread: the Styled instance it owns (class, style_overrides)
    pc,             \* per thread: position in the call it is executing
    frame,          \* per thread: locals of the call (param, tags, idx, s, ret)
    b_style,        \* builder chain: the Style value being threaded through add()
    b_k,            \* builder chain: key argument of the last add()
    b_v,            \* builder chain: value argument of the last add()
    c_src,          \* coercion: Some(concrete value) a round trip starts from, else None
    c_in,           \* coercion: the Option<StyleVal> handed to the conversion
    c_via,          \* coercion: which conversion is applied
    c_out           \* coercion: outcome of the conversion

vars == <<CURRENT_STYLE, lock, widget, pc, frame, b_style, b_k, b_v, c_src, c_in, c_via, c_out>>
styleVars == <<CURRENT_STYLE, lock, widget, pc, frame>>
builderVars == <<b_style, b_k, b_v>>
coerceVars == <<c_src, c_in, c_via, c_out>>

----------------------------------------------------------------------------
\* Option<T>
None == <<>>
Some(x) == <<x>>
IsSome(o) == Len(o) = 1
IsNone(o) == Len(o) = 0
Unwrap(o) == o[1]

\* enum StyleVal: one variant tag and its payload
SV(variant, val) == [variant |-> variant, val |-> val]

\* struct StyleKey / StyleKey::new
StyleKey_new(struct_name, parameter_name, class) ==
    [struct_name |-> struct_name, parameter_name |-> parameter_name, class |-> class]

\* HashMap::insert: add the key, or replace the value it had
Insert(m, k, v) == [x \in (DOMAIN m) \cup {k} |-> IF x = k THEN v ELSE m[x]]

\* HashMap::from([(k, v), ...]): the pairs are inserted in order, so a key
\* that occurs several times keeps the value of its last occurrence
StyleMapFrom(es) ==
    [k \in {es[i][1] : i \in DOMAIN es} |->
        LET last == CHOOSE i \in DOMAIN es :
                        /\ es[i][1] = k
                        /\ \A j \in DOMAIN es : es[j][1] = k => j <= i
        IN  es[last][2]]

EmptyMap == [x \in {} |-> x]

\* the literal array of impl Default for Style, in source order
DefaultEntries == <<
    <<StyleKey_new("Button", "text_color", None), SV("Color", "BLACK")>>,
    <<StyleKey_new("Button", "text_color", Some(<<"text-black">>)), SV("Color", "BLACK")>>,
    <<StyleKey_new("Button", "text_color", Some(<<"text-white">>)), SV("Color", "WHITE")>>,
    <<StyleKey_new("Button", "text_color", Some(<<"text-blue">>)), SV("Color", "BLUE")>>,
    <<StyleKey_new("Button", "font", Some(<<"font-space-mono">>)), SV("String", "SpaceMono-Bold")>>,
    <<StyleKey_new("Button", "font", Some(<<"font-space-grotesk">>)), SV("String", "Space Grotesk")>>,
    <<StyleKey_new("Button", "font_size", None), SV("Float", "12.0")>>,
    <<StyleKey_new("Button", "font_size", Some(<<"text-xs">>)), SV("Float", "14.0")>>,
    <<StyleKey_new("Button", "font_size", Some(<<"text-sm">>)), SV("Float", "16.0")>>,
    <<StyleKey_new("Button", "font_size", Some(<<"text-md">>)), SV("Float", "18.0")>>,
    <<StyleKey_new("Button", "font_size", Some(<<"text-l">>)), SV("Float", "20.0")>>,
    <<StyleKey_new("Button", "font_size", Some(<<"text-xl">>)), SV("Float", "22.0")>>,
    <<StyleKey_new("Button", "font_size", Some(<<"text-2xl">>)), SV("Float", "24.0")>>,
    <<StyleKey_new("Button", "font_size", Some(<<"text-3xl">>)), SV("Float", "28.0")>>,
    <<StyleKey_new("Button", "font_weight", None), SV("FontWeight", "Normal")>>,
    <<StyleKey_new("Button", "font_weight", Some(<<"font-thin">>)), SV("FontWeight", "Thin")>>,
    <<StyleKey_new("Button", "font_weight", Some(<<"font-extralight">>)), SV("FontWeight", "ExtraLight")>>,
    <<StyleKey_new("Button", "font_weight", Some(<<"font-light">>)), SV("FontWeight", "Light")>>,
    <<StyleKey_new("Button", "font_weight", Some(<<"font-normal">>)), SV("FontWeight", "Normal")>>,
    <<StyleKey_new("Button", "font_weight", Some(<<"font-medium">>)), SV("FontWeight", "Medium")>>,
    <<StyleKey_new("Button", "font_weight", Some(<<"font-semibold">>)), SV("FontWeight", "Semibold")>>,
    <<StyleKey_new("Button", "font_weight", Some(<<"font-bold">>)), SV("FontWeight", "Bold")>>,
    <<StyleKey_new("Button", "font_weight", Some(<<"font-extrabold">>)), SV("FontWeight", "ExtraBold")>>,
    <<StyleKey_new("Button", "font_weight", Some(<<"font-black">>)), SV("FontWeight", "Black")>>,
    <<StyleKey_new("Button", "background_color", None), SV("Color", "WHITE")>>,
    <<StyleKey_new("Button", "background_color", Some(<<"bg-black">>)), SV("Color", "BLACK")>>,
    <<StyleKey_new("Button", "background_color", Some(<<"bg-white">>)), SV("Color", "WHITE")>>,
    <<StyleKey_new("Button", "background_color", Some(<<"bg-transparent">>)), SV("Color", "TRANSPARENT")>>,
    <<StyleKey_new("Button", "highlight_color", None), SV("Color", "LIGHT_GREY")>>,
    <<StyleKey_new("Button", "active_color", None), SV("Color", "MID_GREY")>>,
    <<StyleKey_new("Button", "border_color", None), SV("Color", "BLACK")>>,
    <<StyleKey_new("Button", "border_width", None), SV("Float", "0.0")>>,
    <<StyleKey_new("Button", "border_width", Some(<<"border-0">>)), SV("Float", "0.0")>>,
    <<StyleKey_new("Button", "border_width", Some(<<"border">>)), SV("Float", "1.0")>>,
    <<StyleKey_new("Button", "border_width", Some(<<"border-2">>)), SV("Float", "2.0")>>,
    <<StyleKey_new("Button", "border_width", Some(<<"border-4">>)), SV("Float", "4.0")>>,
    <<StyleKey_new("Button", "border_width", Some(<<"border-8">>)), SV("Float", "8.0")>>,
    <<StyleKey_new("Button", "border_width", Some(<<"border-16">>)), SV("Float", "16.0")>>,
    <<StyleKey_new("Button", "border_width", Some(<<"border-0">>)), SV("Float", "0.0")>>,
    <<StyleKey_new("Button", "radius", None), SV("Float", "0.0")>>,
    <<StyleKey_new("IconButton", "radius", Some(<<"rounded-sm">>)), SV("Float", "2.0")>>,
    <<StyleKey_new("IconButton", "radius", Some(<<"rounded">>)), SV("Float", "4.0")>>,
    <<StyleKey_new("IconButton", "radius", Some(<<"rounded-md">>)), SV("Float", "6.0")>>,
    <<StyleKey_new("IconButton", "radius", Some(<<"rounded-lg">>)), SV("Float", "8.0")>>,
    <<StyleKey_new("IconButton", "radius", Some(<<"rounded-xl">>)), SV("Float", "12.0")>>,
    <<StyleKey_new("IconButton", "radius", Some(<<"rounded-2xl">>)), SV("Float", "16.0")>>,
    <<StyleKey_new("IconButton", "radius", Some(<<"rounded-3xl">>)), SV("Float", "24.0")>>,
    <<StyleKey_new("Button", "padding", None), SV("Float", "2.0")>>,
    <<StyleKey_new("Button", "h_alignment", None), SV("HorizontalPosition", "Center")>>,
    <<StyleKey_new("Button", "line_height", Some(<<"leading-3">>)), SV("Float", "12.0")>>,
    <<StyleKey_new("Button", "line_height", Some(<<"leading-4">>)), SV("Float", "16.0")>>,
    <<StyleKey_new("Button", "line_height", Some(<<"leading-5">>)), SV("Float", "20.0")>>,
    <<StyleKey_new("Button", "line_height", Some(<<"leading-6">>)), SV("Float", "24.0")>>,
    <<StyleKey_new("Button", "line_height", Some(<<"leading-7">>)), SV("Float", "28.0")>>,
    <<StyleKey_new("Button", "line_height", Some(<<"leading-8">>)), SV("Float", "32.0")>>,
    <<StyleKey_new("Button", "line_height", Some(<<"leading-9">>)), SV("Float", "36.0")>>,
    <<StyleKey_new("Button", "line_height", Some(<<"leading-10">>)), SV("Float", "40.0")>>,
    <<StyleKey_new("Button", "padding", Some(<<"p-0">>)), SV("Float", "0.0")>>,
    <<StyleKey_new("Button", "padding", Some(<<"p-1">>)), SV("Float", "4.0")>>,
    <<StyleKey_new("Button", "padding", Some(<<"p-2">>)), SV("Float", "8.0")>>,
    <<StyleKey_new("Button", "padding", Some(<<"p-3">>)), SV("Float", "12.0")>>,
    <<StyleKey_new("Button", "padding", Some(<<"p-4">>)), SV("Float", "16.0")>>,
    <<StyleKey_new("Button", "padding", Some(<<"p-5">>)), SV("Float", "20.0")>>,
    <<StyleKey_new("Button", "padding", Some(<<"p-6">>)), SV("Float", "24.0")>>,
    <<StyleKey_new("Button", "padding", Some(<<"p-7">>)), SV("Float", "28.0")>>,
    <<StyleKey_new("Button", "padding", Some(<<"p-8">>)), SV("Float", "32.0")>>,
    <<StyleKey_new("Button", "padding", Some(<<"p-9">>)), SV("Float", "36.0")>>,
    <<StyleKey_new("IconButton", "size", None), SV("Size", "size!(18.,18.)")>>,
    <<StyleKey_new("IconButton", "size", Some(<<"btn-xs">>)), SV("Size", "size!(18.,18.)")>>,
    <<StyleKey_new("IconButton", "size", Some(<<"btn-sm">>)), SV("Size", "size!(24.)")>>,
    <<StyleKey_new("IconButton", "size", Some(<<"btn-md">>)), SV("Size", "size!(32.)")>>,
    <<StyleKey_new("IconButton", "size", Some(<<"btn-xl">>)), SV("Size", "size!(48.0)")>>,
    <<StyleKey_new("IconButton", "size", Some(<<"btn-xxl">>)), SV("Size", "size!(88.)")>>,
    <<StyleKey_new("IconButton", "text_color", None), SV("Color", "BLACK")>>,
    <<StyleKey_new("IconButton", "font_size", None), SV("Float", "12.0")>>,
    <<StyleKey_new("IconButton", "background_color", None), SV("Color", "BLACK")>>,
    <<StyleKey_new("IconButton", "background_color", Some(<<"light">>)), SV("Color", "DARK_GREY")>>,
    <<StyleKey_new("IconButton", "background_color", Some(<<"bg-white">>)), SV("Color", "WHITE")>>,
    <<StyleKey_new("IconButton", "background_color", Some(<<"bg-transparent">>)), SV("Color", "TRANSPARENT")>>,
    <<StyleKey_new("IconButton", "highlight_color", None), SV("Color", "LIGHT_GREY")>>,
    <<StyleKey_new("IconButton", "active_color", None), SV("Color", "rgb(132.,132.,132.)")>>,
    <<StyleKey_new("IconButton", "border_color", None), SV("Color", "rgb(132.,132.,132.)")>>,
    <<StyleKey_new("IconButton", "border_width", None), SV("Float", "0.0")>>,
    <<StyleKey_new("IconButton", "border_width", Some(<<"border-0">>)), SV("Float", "0.0")>>,
    <<StyleKey_new("IconButton", "border_width", Some(<<"border">>)), SV("Float", "1.0")>>,
    <<StyleKey_new("IconButton", "border_width", Some(<<"border-2">>)), SV("Float", "2.0")>>,
    <<StyleKey_new("IconButton", "border_width", Some(<<"border-4">>)), SV("Float", "4.0")>>,
    <<StyleKey_new("IconButton", "border_width", Some(<<"border-8">>)), SV("Float", "8.0")>>,
    <<StyleKey_new("IconButton", "border_width", Some(<<"border-16">>)), SV("Float", "16.0")>>,
    <<StyleKey_new("IconButton", "border_width", Some(<<"border-0">>)), SV("Float", "0.0")>>,
    <<StyleKey_new("IconButton", "padding", Some(<<"p-0">>)), SV("Float", "0.0")>>,
    <<StyleKey_new("IconButton", "padding", Some(<<"p-1">>)), SV("Float", "4.0")>>,
    <<StyleKey_new("IconButton", "padding", Some(<<"p-2">>)), SV("Float", "8.0")>>,
    <<StyleKey_new("IconButton", "padding", Some(<<"p-3">>)), SV("Float", "12.0")>>,
    <<StyleKey_new("IconButton", "padding", Some(<<"p-4">>)), SV("Float", "16.0")>>,
    <<StyleKey_new("IconButton", "padding", Some(<<"p-5">>)), SV("Float", "20.0")>>,
    <<StyleKey_new("IconButton", "padding", Some(<<"p-6">>)), SV("Float", "24.0")>>,
    <<StyleKey_new("IconButton", "padding", Some(<<"p-7">>)), SV("Float", "28.0")>>,
    <<StyleKey_new("IconButton", "padding", Some(<<"p-8">>)), SV("Float", "32.0")>>,
    <<StyleKey_new("IconButton", "padding", Some(<<"p-9">>)), SV("Float", "36.0")>>,
    <<StyleKey_new("IconButton", "radius", None), SV("Float", "0.0")>>,
    <<StyleKey_new("IconButton", "radius", Some(<<"rounded-sm">>)), SV("Float", "2.0")>>,
    <<StyleKey_new("IconButton", "radius", Some(<<"rounded">>)), SV("Float", "4.0")>>,
    <<StyleKey_new("IconButton", "radius", Some(<<"rounded-md">>)), SV("Float", "6.0")>>,
    <<StyleKey_new("IconButton", "radius", Some(<<"rounded-lg">>)), SV("Float", "8.0")>>,
    <<StyleKey_new("IconButton", "radius", Some(<<"rounded-xl">>)), SV("Float", "12.0")>>,
    <<StyleKey_new("IconButton", "radius", Some(<<"rounded-2xl">>)), SV("Float", "16.0")>>,
    <<StyleKey_new("IconButton", "radius", Some(<<"rounded-3xl">>)), SV("Float", "24.0")>>,
    <<StyleKey_new("IconButton", "padding", None), SV("Float", "10.0")>>,
    <<StyleKey_new("RadioButton", "text_color", None), SV("Color", "BLACK")>>,
    <<StyleKey_new("RadioButton", "font_size", None), SV("Color", "BLACK")>>,
    <<StyleKey_new("RadioButton", "background_color", None), SV("Color", "TRANSPARENT")>>,
    <<StyleKey_new("RadioButton", "highlight_color", None), SV("Color", "LIGHT_GREY")>>,
    <<StyleKey_new("RadioButton", "active_color", None), SV("Color", "rgb(45.,138.,255.)")>>,
    <<StyleKey_new("RadioButton", "border_color", None), SV("Color", "rgb(83.,83.,83.)")>>,
    <<StyleKey_new("RadioButton", "border_width", None), SV("Float", "2.0")>>,
    <<StyleKey_new("RadioButton", "radius", None), SV("Float", "4.0")>>,
    <<StyleKey_new("RadioButton", "padding", None), SV("Float", "2.0")>>,
    <<StyleKey_new("Select", "text_color", None), SV("Color", "BLACK")>>,
    <<StyleKey_new("Select", "font_size", None), SV("Float", "12.0")>>,
    <<StyleKey_new("Select", "background_color", None), SV("Color", "WHITE")>>,
    <<StyleKey_new("Select", "highlight_color", None), SV("Color", "LIGHT_GREY")>>,
    <<StyleKey_new("Select", "border_color", None), SV("Color", "BLACK")>>,
    <<StyleKey_new("Select", "caret_color", None), SV("Color", "BLACK")>>,
    <<StyleKey_new("Select", "border_width", None), SV("Float", "2.0")>>,
    <<StyleKey_new("Select", "radius", None), SV("Float", "4.0")>>,
    <<StyleKey_new("Select", "padding", None), SV("Float", "2.0")>>,
    <<StyleKey_new("Select", "max_height", None), SV("Float", "250.0")>>,
    <<StyleKey_new("Toggle", "background_color", None), SV("Color", "LIGHT_GREY")>>,
    <<StyleKey_new("Toggle", "highlight_color", None), SV("Color", "DARK_GREY")>>,
    <<StyleKey_new("Toggle", "active_color", None), SV("Color", "MID_GREY")>>,
    <<StyleKey_new("Toggle", "border_color", None), SV("Color", "BLACK")>>,
    <<StyleKey_new("Toggle", "border_width", None), SV("Float", "2.0")>>,
    <<StyleKey_new("ToolTip", "text_color", None), SV("Color", "BLACK")>>,
    <<StyleKey_new("ToolTip", "font_size", None), SV("Float", "12.0")>>,
    <<StyleKey_new("ToolTip", "background_color", None), SV("Color", "WHITE")>>,
    <<StyleKey_new("ToolTip", "border_color", None), SV("Color", "BLACK")>>,
    <<StyleKey_new("ToolTip", "border_width", None), SV("Float", "2.0")>>,
    <<StyleKey_new("ToolTip", "padding", None), SV("Float", "4.0")>>,
    <<StyleKey_new("TextBox", "font_size", None), SV("Float", "12.0")>>,
    <<StyleKey_new("TextBox", "font_size", Some(<<"text-xs">>)), SV("Float", "14.0")>>,
    <<StyleKey_new("TextBox", "font_size", Some(<<"text-sm">>)), SV("Float", "16.0")>>,
    <<StyleKey_new("TextBox", "font_size", Some(<<"text-md">>)), SV("Float", "18.0")>>,
    <<StyleKey_new("TextBox", "font_size", Some(<<"text-l">>)), SV("Float", "20.0")>>,
    <<StyleKey_new("TextBox", "font_size", Some(<<"text-xl">>)), SV("Float", "22.0")>>,
    <<StyleKey_new("TextBox", "font_size", Some(<<"text-2xl">>)), SV("Float", "24.0")>>,
    <<StyleKey_new("TextBox", "text_color", None), SV("Color", "WHITE")>>,
    <<StyleKey_new("TextBox", "text_color", Some(<<"light">>)), SV("Color", "rgb(14.,14.,14.)")>>,
    <<StyleKey_new("TextBox", "placeholder_color", None), SV("Color", "rgb(132.,132.,132.)")>>,
    <<StyleKey_new("TextBox", "placeholder_color", Some(<<"light">>)), SV("Color", "rgb(148.,148.,148.)")>>,
    <<StyleKey_new("TextBox", "background_color", None), SV("Color", "rgb(49.,49.,49.)")>>,
    <<StyleKey_new("TextBox", "background_color", Some(<<"light">>)), SV("Color", "WHITE")>>,
    <<StyleKey_new("TextBox", "background_color", Some(<<"bg-transparent">>)), SV("Color", "TRANSPARENT")>>,
    <<StyleKey_new("TextBox", "selection_color", None), SV("Color", "MID_GREY")>>,
    <<StyleKey_new("TextBox", "cursor_color", None), SV("Color", "WHITE")>>,
    <<StyleKey_new("TextBox", "cursor_color", Some(<<"light">>)), SV("Color", "BLACK")>>,
    <<StyleKey_new("TextBox", "border_color", None), SV("Color", "rgb(132.,132.,132.)")>>,
    <<StyleKey_new("TextBox", "border_color", Some(<<"light">>)), SV("Color", "rgb(209.,209.,209.)")>>,
    <<StyleKey_new("TextBox", "border_width", None), SV("BorderWidth", "1.0/1.0/1.0/1.0")>>,
    <<StyleKey_new("TextBox", "border_width", Some(<<"border-0">>)), SV("BorderWidth", "0.0/0.0/0.0/0.0")>>,
    <<StyleKey_new("TextBox", "border_width", Some(<<"border">>)), SV("BorderWidth", "1.0/1.0/1.0/1.0")>>,
    <<StyleKey_new("TextBox", "border_width", Some(<<"border-2">>)), SV("BorderWidth", "2.0/2.0/2.0/2.0")>>,
    <<StyleKey_new("TextBox", "border_width", Some(<<"border-4">>)), SV("BorderWidth", "4.0/4.0/4.0/4.0")>>,
    <<StyleKey_new("TextBox", "border_width", Some(<<"border-8">>)), SV("BorderWidth", "8.0/8.0/8.0/8.0")>>,
    <<StyleKey_new("TextBox", "border_width", Some(<<"border-x-0">>)), SV("BorderWidth", "1.5/0.0/1.5/0.0")>>,
    <<StyleKey_new("TextBox", "border_width", Some(<<"border-x-2">>)), SV("BorderWidth", "1.5/2.0/1.5/2.0")>>,
    <<StyleKey_new("TextBox", "border_width", Some(<<"border-x-4">>)), SV("BorderWidth", "1.5/4.0/1.5/4.0")>>,
    <<StyleKey_new("TextBox", "border_width", Some(<<"border-x-8">>)), SV("BorderWidth", "1.5/8.0/1.5/8.0")>>,
    <<StyleKey_new("TextBox", "border_width", Some(<<"border-y-0">>)), SV("BorderWidth", "0.0/1.5/0.0/1.5")>>,
    <<StyleKey_new("TextBox", "border_width", Some(<<"border-y-2">>)), SV("BorderWidth", "2.0/1.5/2.0/1.5")>>,
    <<StyleKey_new("TextBox", "border_width", Some(<<"border-y-4">>)), SV("BorderWidth", "4.0/1.5/4.0/1.5")>>,
    <<StyleKey_new("TextBox", "border_width", Some(<<"border-y-8">>)), SV("BorderWidth", "8.0/1.5/8.0/1.5")>>,
    <<StyleKey_new("TextBox", "border_width", Some(<<"border-t-0">>)), SV("BorderWidth", "0.0/1.5/1.5/1.5")>>,
    <<StyleKey_new("TextBox", "border_width", Some(<<"border-t-2">>)), SV("BorderWidth", "2.0/1.5/1.5/1.5")>>,
    <<StyleKey_new("TextBox", "border_width", Some(<<"border-b-0">>)), SV("BorderWidth", "1.5/1.5/0.0/1.5")>>,
    <<StyleKey_new("TextBox", "border_width", Some(<<"border-b-2">>)), SV("BorderWidth", "1.5/1.5/2.0/1.5")>>,
    <<StyleKey_new("TextBox", "border_width", Some(<<"border-l-0">>)), SV("BorderWidth", "1.5/0.0/1.5/1.5")>>,
    <<StyleKey_new("TextBox", "border_width", Some(<<"border-l-2">>)), SV("BorderWidth", "1.5/2.0/1.5/1.5")>>,
    <<StyleKey_new("TextBox", "border_width", Some(<<"border-r-0">>)), SV("BorderWidth", "1.5/1.5/1.5/0.0")>>,
    <<StyleKey_new("TextBox", "border_width", Some(<<"border-r-2">>)), SV("BorderWidth", "1.5/1.5/1.5/2.0")>>,
    <<StyleKey_new("TextBox", "padding", None), SV("Float", "1.0")>>,
    <<StyleKey_new("TextBox", "font_weight", None), SV("FontWeight", "Normal")>>,
    <<StyleKey_new("Text", "size", None), SV("Float", "12.0")>>,
    <<StyleKey_new("Text", "size", Some(<<"text-xs">>)), SV("Float", "14.0")>>,
    <<StyleKey_new("Text", "size", Some(<<"text-sm">>)), SV("Float", "16.0")>>,
    <<StyleKey_new("Text", "size", Some(<<"text-md">>)), SV("Float", "18.0")>>,
    <<StyleKey_new("Text", "size", Some(<<"text-l">>)), SV("Float", "20.0")>>,
    <<StyleKey_new("Text", "size", Some(<<"text-xl">>)), SV("Float", "22.0")>>,
    <<StyleKey_new("Text", "size", Some(<<"text-2xl">>)), SV("Float", "24.0")>>,
    <<StyleKey_new("Text", "size", Some(<<"text-3xl">>)), SV("Float", "28.0")>>,
    <<StyleKey_new("Text", "font", Some(<<"font-space-mono">>)), SV("String", "SpaceMono-Bold")>>,
    <<StyleKey_new("Text", "font", Some(<<"font-space-grotesk">>)), SV("String", "Space Grotesk")>>,
    <<StyleKey_new("Text", "font_weight", None), SV("FontWeight", "Normal")>>,
    <<StyleKey_new("Text", "font_weight", Some(<<"font-thin">>)), SV("FontWeight", "Thin")>>,
    <<StyleKey_new("Text", "font_weight", Some(<<"font-extralight">>)), SV("FontWeight", "ExtraLight")>>,
    <<StyleKey_new("Text", "font_weight", Some(<<"font-light">>)), SV("FontWeight", "Light")>>,
    <<StyleKey_new("Text", "font_weight", Some(<<"font-normal">>)), SV("FontWeight", "Normal")>>,
    <<StyleKey_new("Text", "font_weight", Some(<<"font-medium">>)), SV("FontWeight", "Medium")>>,
    <<StyleKey_new("Text", "font_weight", Some(<<"font-semibold">>)), SV("FontWeight", "Semibold")>>,
    <<StyleKey_new("Text", "font_weight", Some(<<"font-bold">>)), SV("FontWeight", "Bold")>>,
    <<StyleKey_new("Text", "font_weight", Some(<<"font-extrabold">>)), SV("FontWeight", "ExtraBold")>>,
    <<StyleKey_new("Text", "font_weight", Some(<<"font-black">>)), SV("FontWeight", "Black")>>,
    <<StyleKey_new("Text", "color", None), SV("Color", "BLACK")>>,
    <<StyleKey_new("Text", "color", Some(<<"light">>)), SV("Color", "WHITE")>>,
    <<StyleKey_new("Text", "color", Some(<<"text-black">>)), SV("Color", "BLACK")>>,
    <<StyleKey_new("Text", "color", Some(<<"text-white">>)), SV("Color", "WHITE")>>,
    <<StyleKey_new("Text", "color", Some(<<"text-blue">>)), SV("Color", "BLUE")>>,
    <<StyleKey_new("Text", "h_alignment", None), SV("HorizontalPosition", "Left")>>,
    <<StyleKey_new("Text", "line_height", Some(<<"leading-3">>)), SV("Float", "12.0")>>,
    <<StyleKey_new("Text", "line_height", Some(<<"leading-4">>)), SV("Float", "16.0")>>,
    <<StyleKey_new("Text", "line_height", Some(<<"leading-5">>)), SV("Float", "20.0")>>,
    <<StyleKey_new("Text", "line_height", Some(<<"leading-6">>)), SV("Float", "24.0")>>,
    <<StyleKey_new("Text", "line_height", Some(<<"leading-7">>)), SV("Float", "28.0")>>,
    <<StyleKey_new("Text", "line_height", Some(<<"leading-8">>)), SV("Float", "32.0")>>,
    <<StyleKey_new("Text", "line_height", Some(<<"leading-9">>)), SV("Float", "36.0")>>,
    <<StyleKey_new("Text", "line_height", Some(<<"leading-10">>)), SV("Float", "40.0")>>,
    <<StyleKey_new("Text", "line_height", Some(<<"leading-none">>)), SV("Float", "1.0")>>,
    <<StyleKey_new("Text", "line_height", Some(<<"leading-tight">>)), SV("Float", "1.25")>>,
    <<StyleKey_new("Text", "line_height", Some(<<"leading-snug">>)), SV("Float", "1.375")>>,
    <<StyleKey_new("Text", "line_height", Some(<<"leading-normal">>)), SV("Float", "1.5")>>,
    <<StyleKey_new("Text", "line_height", Some(<<"leading-relaxed">>)), SV("Float", "1.625")>>,
    <<StyleKey_new("Text", "line_height", Some(<<"leading-loose">>)), SV("Float", "2.0")>>,
    <<StyleKey_new("Scroll", "x", None), SV("Bool", "false")>>,
    <<StyleKey_new("Scroll", "y", None), SV("Bool", "false")>>,
    <<StyleKey_new("Scroll", "x_bar_position", None), SV("VerticalPosition", "Bottom")>>,
    <<StyleKey_new("Scroll", "y_bar_position", None), SV("HorizontalPosition", "Right")>>,
    <<StyleKey_new("Scroll", "bar_width", None), SV("Float", "12.0")>>,
    <<StyleKey_new("Scroll", "bar_background_color", None), SV("Color", "LIGHT_GREY")>>,
    <<StyleKey_new("Scroll", "bar_color", None), SV("Color", "grey(0.7)")>>,
    <<StyleKey_new("Scroll", "bar_highlight_color", None), SV("Color", "grey(0.5)")>>,
    <<StyleKey_new("Scroll", "bar_active_color", None), SV("Color", "DARK_GREY")>>,
    <<StyleKey_new("Image", "radius", None), SV("Float", "0.0")>>
>>

\* impl Default for Style
Style_default == StyleMapFrom(DefaultEntries)

\* a constructor that starts from a table with no entries
Style_new_empty == EmptyMap

\* Style::new
Style_new == Style_default

\* an add that keeps the value a key already has
Style_add_keep(s, k, v) == IF k \in DOMAIN s THEN s ELSE Insert(s, k, v)

\* Style::add
Style_add(s, k, v) == Insert(s, k, v)

\* Style::get
Style_get(s, k) == IF k \in DOMAIN s THEN Some(s[k]) ELSE None

\* a class-less lookup that settles for an entry of any class
Style_style_any_class(s, component, parameter_name) ==
    IF StyleKey_new(component, parameter_name, None) \in DOMAIN s
    THEN Some(s[StyleKey_new(component, parameter_name, None)])
    ELSE IF \E k \in DOMAIN s : k.struct_name = component /\ k.parameter_name = parameter_name
    THEN Some(s[CHOOSE k \in DOMAIN s :
                    k.struct_name = component /\ k.parameter_name = parameter_name])
    ELSE None

\* Style::style
Style_style(s, component, parameter_name) ==
    Style_get(s, StyleKey_new(component, parameter_name, None))

\* Style::style_for_class
Style_style_for_class(s, component, parameter_name, class) ==
    Style_get(s, StyleKey_new(component, parameter_name, Some(class)))

----------------------------------------------------------------------------
\* Coercions between StyleVal and the concrete types

\* the variants of enum StyleVal
Variants ==
    {"Dimension", "Size", "Rect", "Point", "Pos", "Color", "Layout",
     "HorizontalPosition", "VerticalPosition", "BorderWidth", "FontWeight",
     "Float", "Int", "Bool", "String"}

\* the concrete types T with an impl From<T> for StyleVal
IntoTypes ==
    {"BorderWidth", "Color", "Dimension", "Size", "Pos", "Point", "Rect", "Layout",
     "VerticalPosition", "HorizontalPosition", "FontWeight", "f64", "u32", "bool", "str"}

\* the concrete types T with an impl From<StyleVal> for T
FromTypes ==
    {"BorderWidth", "Color", "Dimension", "Size", "Pos", "Point", "Rect", "Layout",
     "VerticalPosition", "HorizontalPosition", "FontWeight", "f64", "u32", "bool", "str"}

\* the concrete types T with an impl From<Option<StyleVal>> for T
FromOptionTypes ==
    {"BorderWidth", "Color", "Dimension", "Size", "Pos", "Point", "Rect", "Layout",
     "VerticalPosition", "HorizontalPosition", "FontWeight"}

\* the typed accessors of impl StyleVal
Accessors ==
    {"dimension", "size", "rect", "point", "pos", "layout", "horizontal_position",
     "vertical_position", "font_weight", "color", "str", "string", "f32", "f64",
     "bool", "u32"}

\* the injections with From<u32> wrapping its argument in Float
IntoVariant_u32_as_float(T) ==
    CASE T = "u32" -> "Float"
      [] T = "f64" -> "Float"
      [] T = "bool" -> "Bool"
      [] T = "str" -> "String"
      [] OTHER -> T

\* impl From<T> for StyleVal: the variant each impl wraps its argument in
IntoVariant(T) ==
    CASE T = "BorderWidth" -> "BorderWidth"
      [] T = "Color" -> "Color"
      [] T = "Dimension" -> "Dimension"
      [] T = "Size" -> "Size"
      [] T = "Pos" -> "Pos"
      [] T = "Point" -> "Point"
      [] T = "Rect" -> "Rect"
      [] T = "Layout" -> "Layout"
      [] T = "VerticalPosition" -> "VerticalPosition"
      [] T = "HorizontalPosition" -> "HorizontalPosition"
      [] T = "FontWeight" -> "FontWeight"
      [] T = "f64" -> "Float"
      [] T = "u32" -> "Int"
      [] T = "bool" -> "Bool"
      [] T = "str" -> "String"

\* impl From<T> for StyleVal
Into_StyleVal(T, x) == SV(IntoVariant(T), x)

\* impl From<StyleVal> for T: the variant of the one non-panicking match arm
FromArm(T) ==
    CASE T = "BorderWidth" -> "BorderWidth"
      [] T = "Color" -> "Color"
      [] T = "Dimension" -> "Dimension"
      [] T = "Size" -> "Size"
      [] T = "Pos" -> "Pos"
      [] T = "Point" -> "Point"
      [] T = "Rect" -> "Rect"
      [] T = "Layout" -> "Layout"
      [] T = "VerticalPosition" -> "VerticalPosition"
      [] T = "HorizontalPosition" -> "HorizontalPosition"
      [] T = "FontWeight" -> "FontWeight"
      [] T = "f64" -> "Float"
      [] T = "u32" -> "Int"
      [] T = "bool" -> "Bool"
      [] T = "str" -> "String"

\* impl From<Option<StyleVal>> for T: the variant of the Some(..) match arm
FromOptionArm(T) ==
    CASE T = "BorderWidth" -> "BorderWidth"
      [] T = "Color" -> "Color"
      [] T = "Dimension" -> "Dimension"
      [] T = "Size" -> "Size"
      [] T = "Pos" -> "Pos"
      [] T = "Point" -> "Point"
      [] T = "Rect" -> "Rect"
      [] T = "Layout" -> "Layout"
      [] T = "VerticalPosition" -> "VerticalPosition"
      [] T = "HorizontalPosition" -> "HorizontalPosition"
      [] T = "FontWeight" -> "FontWeight"

\* outcome of a conversion: a value of the requested type, or panic!()
Ok(T, x) == [kind |-> "ok", type |-> T, val |-> x]
Panic(T) == [kind |-> "panic", type |-> T, val |-> ""]
Pending == [kind |-> "pending", type |-> "", val |-> ""]

\* a projection that falls back to a default value on a mismatch
From_StyleVal_or_default(T, v) ==
    IF v.variant = FromArm(T) THEN Ok(T, v.val) ELSE Ok(T, "default")

\* impl From<StyleVal> for T
From_StyleVal(T, v) ==
    IF v.variant = FromArm(T) THEN Ok(T, v.val) ELSE Panic(T)

\* a projection that falls back to a default value on None
From_Option_or_default(T, o) ==
    IF IsNone(o) THEN Ok(T, "default")
    ELSE IF Unwrap(o).variant = FromOptionArm(T) THEN Ok(T, Unwrap(o).val)
    ELSE Panic(T)

\* impl From<Option<StyleVal>> for T
From_Option(T, o) ==
    IF IsSome(o) /\ Unwrap(o).variant = FromOptionArm(T) THEN Ok(T, Unwrap(o).val)
    ELSE Panic(T)

\* `as f32`: round the f64 to the nearest f32
AsF32(x) ==
    CASE x = "0.1" -> "0.100000001490116119384765625"
      [] OTHER -> x

\* the concrete type whose From<StyleVal> an accessor goes through
AccessorInto(a) ==
    CASE a = "dimension" -> "Dimension"
      [] a = "size" -> "Size"
      [] a = "rect" -> "Rect"
      [] a = "point" -> "Point"
      [] a = "pos" -> "Pos"
      [] a = "layout" -> "Layout"
      [] a = "horizontal_position" -> "HorizontalPosition"
      [] a = "vertical_position" -> "VerticalPosition"
      [] a = "font_weight" -> "FontWeight"
      [] a = "color" -> "Color"
      [] a = "str" -> "str"
      [] a = "string" -> "str"
      [] a = "f32" -> "f64"
      [] a = "f64" -> "f64"
      [] a = "bool" -> "bool"
      [] a = "u32" -> "u32"

\* the return type of an accessor
AccessorType(a) ==
    CASE a = "string" -> "String"
      [] a = "f32" -> "f32"
      [] OTHER -> AccessorInto(a)

\* impl StyleVal: dimension(), size(), ..., string(), f32(), ..., u32()
StyleVal_accessor(a, v) ==
    LET r == From_StyleVal(AccessorInto(a), v)
    IN  IF r.kind = "panic" THEN Panic(AccessorType(a))
        ELSE IF a = "f32" THEN Ok("f32", AsF32(r.val))
        ELSE IF a = "string" THEN Ok("String", r.val)
        ELSE r

\* enum StyleVal: the payload type each variant is declared with
PayloadType(variant) ==
    CASE variant = "Float" -> "f64"
      [] variant = "Int" -> "u32"
      [] variant = "Bool" -> "bool"
      [] variant = "String" -> "str"
      [] OTHER -> variant

\* sample values of each concrete type
ValuesOf(T) ==
    CASE T = "Color" -> {"WHITE", "BLACK"}
      [] T = "f64" -> {"12.0", "0.1"}
      [] T = "u32" -> {"0", "4294967295"}
      [] T = "bool" -> {"false", "true"}
      [] T = "str" -> {"", "Space Grotesk"}
      [] T = "FontWeight" -> {"Thin", "Black"}
      [] T = "HorizontalPosition" -> {"Left", "Right"}
      [] T = "VerticalPosition" -> {"Bottom", "Top"}
      [] T = "BorderWidth" -> {"0.0/0.0/0.0/0.0", "1.5/0.0/1.5/0.0"}
      [] OTHER -> {"v1", "v2"}

StyleVals == UNION {{SV(variant, x) : x \in ValuesOf(PayloadType(variant))} : variant \in Variants}
OptionStyleVals == {None} \cup {Some(v) : v \in StyleVals}

\* the conversions a caller can apply to a lookup result
Conversions ==
    {[kind |-> "from", name |-> T] : T \in FromTypes}
    \cup {[kind |-> "from_option", name |-> T] : T \in FromOptionTypes}
    \cup {[kind |-> "accessor", name |-> a] : a \in Accessors}

\* the type a conversion is asked to produce
RequestedType(via) == IF via.kind = "accessor" THEN AccessorType(via.name) ELSE via.name

\* the concrete values a caller can inject
Sources == UNION {{[type |-> T, val |-> x] : x \in ValuesOf(T)} : T \in IntoTypes}

\* a caller holding a lookup result (or injecting a concrete value first)
\* and about to convert it
CoerceInit ==
    /\ c_out = Pending
    /\ c_via \in Conversions
    /\ \/ /\ c_src = None
          /\ c_in \in OptionStyleVals
          /\ c_via.kind # "from_option" => IsSome(c_in)
       \/ /\ c_src \in {Some(x) : x \in Sources}
          /\ c_in = None
          /\ RequestedType(c_via) = Unwrap(c_src).type

\* T -> StyleVal
Inject ==
    /\ IsSome(c_src) /\ IsNone(c_in) /\ c_out = Pending
    /\ c_in' = Some(Into_StyleVal(Unwrap(c_src).type, Unwrap(c_src).val))
    /\ UNCHANGED <<c_src, c_via, c_out>>

CanCoerce == c_out = Pending /\ (IsSome(c_src) => IsSome(c_in))

\* StyleVal -> T through From<StyleVal>
CoerceFrom ==
    /\ CanCoerce /\ c_via.kind = "from"
    /\ c_out' = From_StyleVal(c_via.name, Unwrap(c_in))
    /\ UNCHANGED <<c_src, c_in, c_via>>

\* Option<StyleVal> -> T through From<Option<StyleVal>>
CoerceFromOption ==
    /\ CanCoerce /\ c_via.kind = "from_option"
    /\ c_out' = From_Option(c_via.name, c_in)
    /\ UNCHANGED <<c_src, c_in, c_via>>

\* StyleVal -> T through a typed accessor
CoerceAccessor ==
    /\ CanCoerce /\ c_via.kind = "accessor"
    /\ c_out' = StyleVal_accessor(c_via.name, Unwrap(c_in))
    /\ UNCHANGED <<c_src, c_in, c_via>>

CoerceIdle ==
    /\ c_src = None /\ c_in = None /\ c_out = Pending
    /\ c_via = [kind |-> "from_option", name |-> "Color"]

----------------------------------------------------------------------------
\* The Styled trait and the registry

NumThreads == 2
Threads == 1 .. NumThreads
NoThread == 0

\* tests::Widget: Styled::name()
name == "Widget"

\* #[derive(Default)] struct Widget
Widget_default == [class |-> None, style_overrides |-> EmptyMap]

NoFrame == [param |-> "", tags |-> <<>>, idx |-> 0, s |-> None, ret |-> None]

\* str::split(" "): the pieces between single space symbols, empty pieces included
RECURSIVE SplitFrom(_, _)
SplitFrom(str, cur) ==
    IF str = <<>> THEN <<cur>>
    ELSE IF Head(str) = " " THEN <<cur>> \o SplitFrom(Tail(str), <<>>)
    ELSE SplitFrom(Tail(str), Append(cur, Head(str)))

split(str) == SplitFrom(str, <<>>)

\* Styled::style_key
style_key(parameter_name, class) == StyleKey_new(name, parameter_name, class)

\* the table behind the Mutex, read or written under the guard
Table == Unwrap(CURRENT_STYLE)

\* get_current_style: the lookup made while the guard is held
get_current_style(k) == Style_get(Table, k)

\* an access that builds the table anew each time instead of once
Acquire_reinit(t) ==
    /\ lock = NoThread
    /\ lock' = t
    /\ CURRENT_STYLE' = Some(Style_new)

\* _current_style().lock(): OnceLock::get_or_init, then Mutex::lock
Acquire(t) ==
    /\ lock = NoThread
    /\ lock' = t
    /\ CURRENT_STYLE' = IF IsNone(CURRENT_STYLE) THEN Some(Style_new) ELSE CURRENT_STYLE

\* the constructor of a styled component
construct(t) ==
    /\ pc[t] = "idle"
    /\ widget[t] # Widget_default
    /\ widget' = [widget EXCEPT ![t] = Widget_default]
    /\ UNCHANGED <<CURRENT_STYLE, lock, pc, frame>>

\* a with_class that appends to the class the widget already has
with_class_append(t, class) ==
    /\ pc[t] = "idle"
    /\ widget' = [widget EXCEPT ![t].class =
            IF IsSome(@) THEN Some(Unwrap(@) \o <<" ">> \o class) ELSE Some(class)]
    /\ UNCHANGED <<CURRENT_STYLE, lock, pc, frame>>

\* Styled::with_class
with_class(t, class) ==
    /\ pc[t] = "idle"
    /\ widget' = [widget EXCEPT ![t].class = Some(class)]
    /\ UNCHANGED <<CURRENT_STYLE, lock, pc, frame>>

\* an insert that replaces the override set by the one new entry
style_insert_reset(w, parameter, val) ==
    [w EXCEPT !.style_overrides = Insert(EmptyMap, parameter, val)]

\* Styled::style: self.style_overrides_mut().0.insert(parameter, val.into())
style_insert(w, parameter, val) ==
    [w EXCEPT !.style_overrides = Insert(@, parameter, val)]

\* Styled::style
style(t, parameter, val) ==
    /\ pc[t] = "idle"
    /\ widget' = [widget EXCEPT ![t] = style_insert(@, parameter, val)]
    /\ UNCHANGED <<CURRENT_STYLE, lock, pc, frame>>

\* a maybe_style that takes None as a request to clear the override
maybe_style_insert_or_remove(w, parameter, val) ==
    IF IsSome(val)
    THEN [w EXCEPT !.style_overrides = Insert(@, parameter, Unwrap(val))]
    ELSE [w EXCEPT !.style_overrides =
             [q \in (DOMAIN w.style_overrides) \ {parameter} |-> w.style_overrides[q]]]

\* Styled::maybe_style: if let Some(val) = val { ...insert(parameter, val) }
maybe_style_insert(w, parameter, val) ==
    IF IsSome(val)
    THEN [w EXCEPT !.style_overrides = Insert(@, parameter, Unwrap(val))]
    ELSE w

\* Styled::maybe_style
maybe_style(t, parameter, val) ==
    /\ pc[t] = "idle"
    /\ widget' = [widget EXCEPT ![t] = maybe_style_insert(@, parameter, val)]
    /\ UNCHANGED <<CURRENT_STYLE, lock, pc, frame>>

\* style_val with the class tier consulted before the override
style_val_branch_class_first(w, param) ==
    IF IsSome(w.class)
    THEN [pc |-> "class_lock",
          frame |-> [NoFrame EXCEPT !.param = param, !.tags = split(Unwrap(w.class)), !.idx = 1]]
    ELSE IF param \in DOMAIN w.style_overrides
    THEN [pc |-> "returned",
          frame |-> [NoFrame EXCEPT !.param = param, !.ret = Some(w.style_overrides[param])]]
    ELSE [pc |-> "default_lock", frame |-> [NoFrame EXCEPT !.param = param]]

\* Styled::style_val, the if / else-if / else on the override and the class:
\* where the call goes and with which locals
style_val_branch(w, param) ==
    IF param \in DOMAIN w.style_overrides
    THEN [pc |-> "returned",
          frame |-> [NoFrame EXCEPT !.param = param, !.ret = Some(w.style_overrides[param])]]
    ELSE IF IsSome(w.class)
    THEN [pc |-> "class_lock",
          frame |-> [NoFrame EXCEPT !.param = param, !.tags = split(Unwrap(w.class)), !.idx = 1]]
    ELSE [pc |-> "default_lock", frame |-> [NoFrame EXCEPT !.param = param]]

\* Styled::style_val, up to its first get_current_style call
style_val(t, param) ==
    /\ pc[t] = "idle"
    /\ pc' = [pc EXCEPT ![t] = style_val_branch(widget[t], param).pc]
    /\ frame' = [frame EXCEPT ![t] = style_val_branch(widget[t], param).frame]
    /\ UNCHANGED <<CURRENT_STYLE, lock, widget>>

\* style_val: get_current_style(style_key(param, Some(c))) takes the guard
class_lock(t) ==
    /\ pc[t] = "class_lock"
    /\ Acquire(t)
    /\ pc' = [pc EXCEPT ![t] = "class_get"]
    /\ UNCHANGED <<widget, frame>>

\* the for loop without its early return: a hit is kept only on the last tag
for_tag_no_return(f, v) ==
    IF f.idx < Len(f.tags)
    THEN [pc |-> "class_lock", frame |-> [f EXCEPT !.idx = f.idx + 1]]
    ELSE IF IsSome(v)
    THEN [pc |-> "returned", frame |-> [NoFrame EXCEPT !.param = f.param, !.ret = v]]
    ELSE [pc |-> "default_lock", frame |-> [NoFrame EXCEPT !.param = f.param]]

\* the for loop without the class-less lookup after it
for_tag_no_fallback(f, v) ==
    IF IsSome(v)
    THEN [pc |-> "returned", frame |-> [NoFrame EXCEPT !.param = f.param, !.ret = v]]
    ELSE IF f.idx < Len(f.tags)
    THEN [pc |-> "class_lock", frame |-> [f EXCEPT !.idx = f.idx + 1]]
    ELSE [pc |-> "returned", frame |-> [NoFrame EXCEPT !.param = f.param]]

\* a for loop that goes through all the tags and combines the values it finds:
\* the top of one border width with the bottom of the other
for_tag_merge(f, v) ==
    LET acc == IF IsNone(v) THEN f.ret
               ELSE IF IsNone(f.ret) THEN v
               ELSE IF {Unwrap(f.ret).val, Unwrap(v).val} = {"2.0/1.5/1.5/1.5", "1.5/1.5/2.0/1.5"}
               THEN Some(SV("BorderWidth", "2.0/1.5/2.0/1.5"))
               ELSE f.ret
    IN  IF f.idx < Len(f.tags)
        THEN [pc |-> "class_lock", frame |-> [f EXCEPT !.idx = f.idx + 1, !.ret = acc]]
        ELSE IF IsSome(acc)
        THEN [pc |-> "returned", frame |-> [NoFrame EXCEPT !.param = f.param, !.ret = acc]]
        ELSE [pc |-> "default_lock", frame |-> [NoFrame EXCEPT !.param = f.param]]

\* style_val, the body of the for loop over the tags: return on a hit, else
\* go on to the next tag, and after the last one to the class-less lookup
for_tag(f, v) ==
    IF IsSome(v)
    THEN [pc |-> "returned", frame |-> [NoFrame EXCEPT !.param = f.param, !.ret = v]]
    ELSE IF f.idx < Len(f.tags)
    THEN [pc |-> "class_lock", frame |-> [f EXCEPT !.idx = f.idx + 1]]
    ELSE [pc |-> "default_lock", frame |-> [NoFrame EXCEPT !.param = f.param]]

\* a tag lookup that remembers a hit as an override of the instance
class_get_memo(t) ==
    /\ pc[t] = "class_get"
    /\ lock' = NoThread
    /\ LET f == frame[t]
           v == get_current_style(style_key(f.param, Some(f.tags[f.idx])))
       IN  /\ pc' = [pc EXCEPT ![t] = for_tag(f, v).pc]
           /\ frame' = [frame EXCEPT ![t] = for_tag(f, v).frame]
           /\ widget' = IF IsSome(v)
                         THEN [widget EXCEPT ![t].style_overrides = Insert(@, f.param, Unwrap(v))]
                         ELSE widget
    /\ UNCHANGED CURRENT_STYLE

\* a tag lookup that keeps the guard while the loop goes on to the next tag
class_get_keep_guard(t) ==
    /\ pc[t] = "class_get"
    /\ LET f == frame[t]
           v == get_current_style(style_key(f.param, Some(f.tags[f.idx])))
       IN  /\ lock' = IF for_tag(f, v).pc = "class_lock" THEN t ELSE NoThread
           /\ pc' = [pc EXCEPT ![t] = for_tag(f, v).pc]
           /\ frame' = [frame EXCEPT ![t] = for_tag(f, v).frame]
    /\ UNCHANGED <<CURRENT_STYLE, widget>>

\* style_val: the lookup of one class tag; the guard is dropped with the result
class_get(t) ==
    /\ pc[t] = "class_get"
    /\ lock' = NoThread
    /\ LET f == frame[t]
           v == get_current_style(style_key(f.param, Some(f.tags[f.idx])))
       IN  /\ pc' = [pc EXCEPT ![t] = for_tag(f, v).pc]
           /\ frame' = [frame EXCEPT ![t] = for_tag(f, v).frame]
    /\ UNCHANGED <<CURRENT_STYLE, widget>>

\* style_val: get_current_style(style_key(param, None)) takes the guard
default_lock(t) ==
    /\ pc[t] = "default_lock"
    /\ Acquire(t)
    /\ pc' = [pc EXCEPT ![t] = "default_get"]
    /\ UNCHANGED <<widget, frame>>

\* a class-less lookup that unwraps its result under the guard: on None the
\* thread panics with the guard alive, and the Mutex stays poisoned
default_get_unwrap(t) ==
    /\ pc[t] = "default_get"
    /\ LET v == get_current_style(style_key(frame[t].param, None))
       IN  IF IsNone(v)
           THEN /\ pc' = [pc EXCEPT ![t] = "panicked"]
                /\ frame' = [frame EXCEPT ![t] = NoFrame]
                /\ lock' = lock
           ELSE /\ pc' = [pc EXCEPT ![t] = "returned"]
                /\ frame' = [frame EXCEPT ![t].ret = v]
                /\ lock' = NoThread
    /\ UNCHANGED <<CURRENT_STYLE, widget>>

\* a class-less lookup that returns its result with the guard still alive
default_get_keep_guard(t) ==
    /\ pc[t] = "default_get"
    /\ pc' = [pc EXCEPT ![t] = "returned"]
    /\ frame' = [frame EXCEPT ![t].ret = get_current_style(style_key(frame[t].param, None))]
    /\ UNCHANGED <<CURRENT_STYLE, lock, widget>>

\* style_val: the class-less lookup, whose result is the call's result
default_get(t) ==
    /\ pc[t] = "default_get"
    /\ lock' = NoThread
    /\ pc' = [pc EXCEPT ![t] = "returned"]
    /\ frame' = [frame EXCEPT ![t].ret = get_current_style(style_key(frame[t].param, None))]
    /\ UNCHANGED <<CURRENT_STYLE, widget>>

\* the caller is done with the value style_val returned
drop(t) ==
    /\ pc[t] = "returned"
    /\ pc' = [pc EXCEPT ![t] = "idle"]
    /\ frame' = [frame EXCEPT ![t] = NoFrame]
    /\ UNCHANGED <<CURRENT_STYLE, lock, widget>>

\* the concrete types the callers ask for
IntoTargets == {"Color", "BorderWidth"}

\* the caller converts the returned Option<StyleVal> with .into(): the match
\* either yields the payload or panics, which ends the thread
into(t, T) ==
    /\ pc[t] = "returned"
    /\ pc' = [pc EXCEPT ![t] = IF From_Option(T, frame[t].ret).kind = "panic"
                                THEN "panicked" ELSE "idle"]
    /\ frame' = [frame EXCEPT ![t] = NoFrame]
    /\ UNCHANGED <<CURRENT_STYLE, lock, widget>>

\* an install that extends the old table with the new entries
assign_extend(old, s) ==
    [k \in (DOMAIN old) \cup (DOMAIN s) |-> IF k \in DOMAIN s THEN s[k] ELSE old[k]]

\* set_current_style: `*guard = s` replaces the whole table
assign(old, s) == s

\* set_current_style(s): the call, which owns the table s from here on
set_current_style(t, s) ==
    /\ pc[t] = "idle"
    /\ pc' = [pc EXCEPT ![t] = "set_lock"]
    /\ frame' = [frame EXCEPT ![t] = [NoFrame EXCEPT !.s = Some(s)]]
    /\ UNCHANGED <<CURRENT_STYLE, lock, widget>>

\* set_current_style: _current_style().lock()
set_lock(t) ==
    /\ pc[t] = "set_lock"
    /\ Acquire(t)
    /\ pc' = [pc EXCEPT ![t] = "set_write"]
    /\ UNCHANGED <<widget, frame>>

\* an install that writes the new entries one by one into the table in place
\* and leaves the entries the table already has
set_write_entrywise(t) ==
    /\ pc[t] = "set_write"
    /\ CURRENT_STYLE' =
           Some([k \in (DOMAIN Table) \cup (DOMAIN Unwrap(frame[t].s)) |->
                    IF k \in DOMAIN Table THEN Table[k] ELSE Unwrap(frame[t].s)[k]])
    /\ lock' = NoThread
    /\ pc' = [pc EXCEPT ![t] = "idle"]
    /\ frame' = [frame EXCEPT ![t] = NoFrame]
    /\ UNCHANGED widget

\* set_current_style: the assignment through the guard, which is then dropped
set_write(t) ==
    /\ pc[t] = "set_write"
    /\ CURRENT_STYLE' = Some(assign(Table, Unwrap(frame[t].s)))
    /\ lock' = NoThread
    /\ pc' = [pc EXCEPT ![t] = "idle"]
    /\ frame' = [frame EXCEPT ![t] = NoFrame]
    /\ UNCHANGED widget

----------------------------------------------------------------------------
\* Inputs

MaxAdds == 2

WHITE == SV("Color", "WHITE")
BLACK == SV("Color", "BLACK")
BLUE == SV("Color", "BLUE")

Params == {"color", "size"}
OverrideVals == {BLUE}

\* class strings: "", "a", "b", "a b", "b a", "a  b", "a\tb"
ClassInputs ==
    {<<>>, <<"a">>, <<"b">>, <<"a", " ", "b">>, <<"b", " ", "a">>,
     <<"a", " ", " ", "b">>, <<"a", "\t", "b">>}

ThemeKeys ==
    {StyleKey_new("Widget", "color", None),
     StyleKey_new("Widget", "color", Some(<<"a">>)),
     StyleKey_new("Widget", "color", Some(<<"b">>)),
     StyleKey_new("Widget", "color", Some(<<>>))}
ThemeVals == {WHITE, BLACK}

\* the tables a caller can build: Style::new() followed by up to n add() calls
RECURSIVE Built(_)
Built(n) ==
    IF n = 0 THEN {Style_new}
    ELSE LET P == Built(n - 1)
         IN  P \cup {Style_add(s, k, v) : s \in P, k \in ThemeKeys, v \in ThemeVals}

Themes == Built(MaxAdds)

\* the rules a style! invocation is written with: `Component.param = val;`
\* or `class.Component.param = val;`
MaxRules == 2
MacroRules ==
    [class : {None, Some("dark")}, component : {"Widget"}, param : {"color"},
     T : {"Color"}, val : {"WHITE", "BLACK"}]
RuleSeqs == UNION {[1 .. n -> MacroRules] : n \in 0 .. MaxRules}

\* a rule arm that leaves the class out of the key
style_rule_no_class(result, r) ==
    Append(result, <<StyleKey_new(r.component, r.param, None), Into_StyleVal(r.T, r.val)>>)

\* style!, the two rule arms: each appends one .add(StyleKey::new(..), $val.into())
\* to the calls collected so far; stringify!($class) is the one tag of the key
style_rule(result, r) ==
    IF IsNone(r.class)
    THEN Append(result, <<StyleKey_new(r.component, r.param, None),
                          Into_StyleVal(r.T, r.val)>>)
    ELSE Append(result, <<StyleKey_new(r.component, r.param, Some(<<Unwrap(r.class)>>)),
                          Into_StyleVal(r.T, r.val)>>)

\* the expression the macro ends in: Style::new() followed by the collected calls
RECURSIVE style_finish(_, _)
style_finish(s, result) ==
    IF result = <<>> THEN s
    ELSE style_finish(Style_add(s, Head(result)[1], Head(result)[2]), Tail(result))

\* style!(@ { rules } -> (result)): one rule is taken off the front per step
RECURSIVE style_munch(_, _)
style_munch(rest, result) ==
    IF rest = <<>> THEN style_finish(Style_new, result)
    ELSE style_munch(Tail(rest), style_rule(result, Head(rest)))

\* style!, the entry point
style_macro(tt) == style_munch(tt, <<>>)

\* tests::test_style
test_style ==
    Style_add(Style_add(Style_new,
                        StyleKey_new("Widget", "color", None), Into_StyleVal("Color", "WHITE")),
              StyleKey_new("Widget", "color", Some(<<"dark">>)), Into_StyleVal("Color", "BLACK"))

\* tests::test_style_macro, the rules given to style!
test_style_macro_rules ==
    << [class |-> None, component |-> "Widget", param |-> "color", T |-> "Color", val |-> "WHITE"],
       [class |-> Some("dark"), component |-> "Widget", param |-> "color", T |-> "Color",
        val |-> "BLACK"] >>

\* inputs of the multi-threaded runs
ConcParams == {"color"}
ConcClassInputs == {<<"a", " ", "b">>}
ThemeAB ==
    Style_add(Style_add(Style_new, StyleKey_new("Widget", "color", None), WHITE),
              StyleKey_new("Widget", "color", Some(<<"b">>)), BLACK)
ThemeA == Style_add(Style_new, StyleKey_new("Widget", "color", Some(<<"a">>)), BLACK)
ConcThemes == {ThemeAB, ThemeA}

\* inputs of the runs with values that have parts: border widths, written
\* top/left/bottom/right as in the built-in table
BORDER_1 == SV("BorderWidth", "1.0/1.0/1.0/1.0")
BORDER_T2 == SV("BorderWidth", "2.0/1.5/1.5/1.5")
BORDER_B2 == SV("BorderWidth", "1.5/1.5/2.0/1.5")
BorderParams == {"border_width"}
BorderClassInputs == {<<"t2", " ", "b2">>}
ThemeBorder ==
    Style_add(Style_add(Style_add(Style_new,
                                  StyleKey_new("Widget", "border_width", None), BORDER_1),
                        StyleKey_new("Widget", "border_width", Some(<<"t2">>)), BORDER_T2),
              StyleKey_new("Widget", "border_width", Some(<<"b2">>)), BORDER_B2)
ThemeBorderB ==
    Style_add(Style_new, StyleKey_new("Widget", "border_width", Some(<<"b2">>)), BORDER_B2)
BorderThemes == {ThemeBorder, ThemeBorderB}

\* keys and values of the builder chain
BuilderKeys == ThemeKeys \cup {StyleKey_new("Button", "text_color", None)}

----------------------------------------------------------------------------
\* Specifications

StyleInit ==
    /\ CURRENT_STYLE = None
    /\ lock = NoThread
    /\ widget = [t \in Threads |-> Widget_default]
    /\ pc = [t \in Threads |-> "idle"]
    /\ frame = [t \in Threads |-> NoFrame]

BuilderIdle == b_style = Style_new /\ b_k = None /\ b_v = None

\* a builder chain: Style::new().add(k, v).add(k, v)...
Builder_add(k, v) ==
    /\ b_style' = Style_add(b_style, k, v)
    /\ b_k' = Some(k)
    /\ b_v' = Some(v)

\* the calls one thread makes, with the given inputs
ThreadStep(t, classes, params, themes) ==
    \/ construct(t)
    \/ \E c \in classes : with_class(t, c)
    \/ \E p \in params, v \in OverrideVals : style(t, p, v)
    \/ \E p \in params, o \in {None} \cup {Some(v) : v \in OverrideVals} : maybe_style(t, p, o)
    \/ \E p \in params : style_val(t, p)
    \/ class_lock(t)
    \/ class_get(t)
    \/ default_lock(t)
    \/ default_get(t)
    \/ drop(t)
    \/ \E T \in IntoTargets : into(t, T)
    \/ \E s \in themes : set_current_style(t, s)
    \/ set_lock(t)
    \/ set_write(t)

\* a single-threaded program
MainThread == 1
Init == StyleInit /\ BuilderIdle /\ CoerceIdle
Next ==
    /\ ThreadStep(MainThread, ClassInputs, Params, Themes)
    /\ UNCHANGED <<builderVars, coerceVars>>
Spec == Init /\ [][Next]_vars

\* several threads, each with its own widget, sharing the registry
ConcNext ==
    /\ \E t \in Threads : ThreadStep(t, ConcClassInputs, ConcParams, ConcThemes)
    /\ UNCHANGED <<builderVars, coerceVars>>
ConcSpec == Init /\ [][ConcNext]_vars

\* several threads, where a table is installed only while no style_val call
\* is between its start and its return
InFlight(t) == pc[t] \in {"class_lock", "class_get", "default_lock", "default_get"}
SerialNext ==
    /\ \E t \in Threads :
        /\ ThreadStep(t, ConcClassInputs, ConcParams, ConcThemes)
        /\ (pc[t] = "set_lock" /\ pc'[t] = "set_write") => \A u \in Threads : ~InFlight(u)
    /\ UNCHANGED <<builderVars, coerceVars>>
SerialSpec == Init /\ [][SerialNext]_vars

\* several threads resolving and installing border widths
MergeNext ==
    /\ \E t \in Threads : ThreadStep(t, BorderClassInputs, BorderParams, BorderThemes)
    /\ UNCHANGED <<builderVars, coerceVars>>
MergeSpec == Init /\ [][MergeNext]_vars

\* the calls of a thread that touch the registry, and what its caller does
\* with the result, under a fair scheduler: a thread inside a critical
\* section goes on to leave it, and a thread that asks for the lock gets it
\* if the lock is free again and again. Callers are free never to call.
Critical(t) ==
    \/ class_lock(t)
    \/ class_get(t)
    \/ default_lock(t)
    \/ default_get(t)
    \/ set_lock(t)
    \/ set_write(t)
FairStep(t) ==
    \/ \E p \in ConcParams : style_val(t, p)
    \/ Critical(t)
    \/ drop(t)
    \/ \E T \in IntoTargets : into(t, T)
    \/ \E s \in ConcThemes : set_current_style(t, s)
FairNext ==
    /\ \E t \in Threads : FairStep(t)
    /\ UNCHANGED <<builderVars, coerceVars>>
Fairness ==
    \A t \in Threads : SF_vars(Critical(t) /\ UNCHANGED <<builderVars, coerceVars>>)
\* every thread starts with a widget built as Widget::default().with_class("a b")
FairInit ==
    /\ CURRENT_STYLE = None
    /\ lock = NoThread
    /\ widget = [t \in Threads |-> [Widget_default EXCEPT !.class = Some(<<"a", " ", "b">>)]]
    /\ pc = [t \in Threads |-> "idle"]
    /\ frame = [t \in Threads |-> NoFrame]
    /\ BuilderIdle /\ CoerceIdle
FairSpec == FairInit /\ [][FairNext]_vars /\ Fairness

\* a table builder chain
BuilderNext ==
    /\ \E k \in BuilderKeys, v \in ThemeVals : Builder_add(k, v)
    /\ UNCHANGED <<styleVars, coerceVars>>
BuilderSpec == Init /\ [][BuilderNext]_vars

\* a conversion of one value
CoerceNext ==
    /\ Inject \/ CoerceFrom \/ CoerceFromOption \/ CoerceAccessor
    /\ UNCHANGED <<styleVars, builderVars>>
CoerceStart == StyleInit /\ BuilderIdle /\ CoerceInit
CoerceSpec == CoerceStart /\ [][CoerceNext]_vars

----------------------------------------------------------------------------
\* Properties

Min(S) == CHOOSE i \in S : \A j \in S : i <= j

\* the tags of a widget's class string, and those with an entry in table T
TagsOf(w) == IF IsSome(w.class) THEN split(Unwrap(w.class)) ELSE <<>>
Hits(T, w, p) == {i \in 1 .. Len(TagsOf(w)) : style_key(p, Some(TagsOf(w)[i])) \in DOMAIN T}

\* the class-less entry of table T for parameter p, if any
DefaultEntry(T, p) ==
    IF style_key(p, None) \in DOMAIN T THEN Some(T[style_key(p, None)]) ELSE None

\* the three-tier cascade, against one table T
Cascade(T, w, p) ==
    IF p \in DOMAIN w.style_overrides THEN Some(w.style_overrides[p])
    ELSE IF Hits(T, w, p) # {} THEN Some(T[style_key(p, Some(TagsOf(w)[Min(Hits(T, w, p))]))])
    ELSE DefaultEntry(T, p)

Returned(t) == pc[t] = "returned"
Overridden(t) == frame[t].param \in DOMAIN widget[t].style_overrides

\* C1: a style_val call for a parameter that has an override returns exactly
\* the override value, whatever the class and whatever the installed table.
C1_OverridePrecedence ==
    \A t \in Threads :
        Returned(t) /\ Overridden(t)
            => frame[t].ret = Some(widget[t].style_overrides[frame[t].param])

\* an overridden parameter was resolved on a widget whose class names a tag
\* with a different value in the installed table
C1_Witness ==
    \E t \in Threads :
        /\ Returned(t) /\ Overridden(t)
        /\ IsSome(CURRENT_STYLE)
        /\ Hits(Table, widget[t], frame[t].param) # {}
        /\ Cascade(Table, [widget[t] EXCEPT !.style_overrides = EmptyMap], frame[t].param)
               # frame[t].ret

\* C2: with no override, style_val returns the entry of the first tag of the
\* class string that has an entry in the current table; earlier tags
\* without an entry are fallen through and later tags are not consulted.
C2_ClassPrecedence ==
    \A t \in Threads :
        Returned(t) /\ ~Overridden(t) /\ IsSome(CURRENT_STYLE)
          /\ Hits(Table, widget[t], frame[t].param) # {}
            => LET first == Min(Hits(Table, widget[t], frame[t].param))
               IN  frame[t].ret =
                       Some(Table[style_key(frame[t].param, Some(TagsOf(widget[t])[first]))])

\* two tags of the class have entries with different values and the first won
C2_Witness ==
    \E t \in Threads :
        /\ Returned(t) /\ ~Overridden(t) /\ IsSome(CURRENT_STYLE)
        /\ LET tags == TagsOf(widget[t])
               p == frame[t].param
           IN  /\ Len(tags) = 2
               /\ Hits(Table, widget[t], p) = {1, 2}
               /\ Table[style_key(p, Some(tags[1]))] # Table[style_key(p, Some(tags[2]))]
               /\ frame[t].ret = Some(Table[style_key(p, Some(tags[1]))])

\* C3: with no override and no class, or a class none of whose tags has an
\* entry, style_val returns the class-less entry if the table has one and None
\* otherwise.
C3_DefaultFallback ==
    \A t \in Threads :
        Returned(t) /\ ~Overridden(t) /\ IsSome(CURRENT_STYLE)
          /\ Hits(Table, widget[t], frame[t].param) = {}
            => frame[t].ret = DefaultEntry(Table, frame[t].param)

\* a widget with class tags, none of which has an entry, got the class-less entry
C3_Witness ==
    \E t \in Threads :
        /\ Returned(t) /\ ~Overridden(t) /\ IsSome(CURRENT_STYLE)
        /\ Len(TagsOf(widget[t])) = 2
        /\ Hits(Table, widget[t], frame[t].param) = {}
        /\ IsSome(frame[t].ret)

\* a style_val call returns in this step
Completes(t) == pc[t] # "returned" /\ pc'[t] = "returned"

\* C4: when tables are installed only between style_val calls, a call that
\* returns has resolved its class and default tiers against the table that
\* was installed last, whole; and an install changes no value that a call
\* has already returned.
C4_SwapTotal ==
    [][\A t \in Threads :
        /\ Completes(t) /\ frame'[t].param \notin DOMAIN widget[t].style_overrides
              => frame'[t].ret = Cascade(Unwrap(CURRENT_STYLE'), widget[t], frame'[t].param)
        /\ pc[t] = "set_write" /\ pc'[t] = "idle"
              => /\ CURRENT_STYLE' = frame[t].s
                 /\ \A u \in Threads :
                        Returned(u) => pc'[u] = "returned" /\ frame'[u].ret = frame[u].ret
      ]_vars

\* one thread resolved a value from an installed table, while another still
\* holds a value it resolved before that table was installed
C4_Witness ==
    \E t, u \in Threads :
        /\ t # u /\ IsSome(CURRENT_STYLE) /\ Table # Style_new
        /\ Returned(t) /\ ~Overridden(t)
        /\ IsSome(frame[t].ret)
        /\ frame[t].ret = Cascade(Table, widget[t], frame[t].param)
        /\ Returned(u) /\ ~Overridden(u)
        /\ frame[u].ret # Cascade(Table, widget[u], frame[u].param)

\* C5: the value a style_val call returns is the cascade result against one
\* single table, also when tables are installed while the call is running.
C5_OneTable ==
    [][\A t \in Threads :
        Completes(t) /\ frame'[t].param \notin DOMAIN widget[t].style_overrides
            => \E T \in ConcThemes \cup {Style_new} :
                   frame'[t].ret = Cascade(T, widget[t], frame'[t].param)
      ]_vars

\* the variant that holds a value of concrete type T
VariantFor(T) ==
    CASE T = "f32" -> "Float"
      [] T = "String" -> "String"
      [] OTHER -> CHOOSE variant \in Variants : PayloadType(variant) = T

Converted == c_out # Pending

\* C6: converting a StyleVal whose variant is not the one of the requested
\* type ends in a panic, through From<StyleVal>, From<Option<StyleVal>> and
\* the typed accessors alike.
C6_MismatchPanics ==
    Converted /\ IsSome(c_in) /\ Unwrap(c_in).variant # VariantFor(RequestedType(c_via))
        => c_out.kind = "panic"

\* a typed accessor was applied to a value of another variant
C6_Witness ==
    /\ Converted /\ IsSome(c_in) /\ c_via.kind = "accessor"
    /\ Unwrap(c_in).variant # VariantFor(RequestedType(c_via))
    /\ c_out.kind = "panic"

\* C7: converting an absent lookup result (None) to a concrete type panics.
C7_AbsentPanics ==
    Converted /\ IsNone(c_in) => c_out.kind = "panic"

\* From<Option<StyleVal>> was applied to None
C7_Witness ==
    Converted /\ IsNone(c_in) /\ c_via.kind = "from_option" /\ c_out.kind = "panic"

\* C8: injecting a concrete value into StyleVal gives the variant of its
\* type, and projecting that back gives the original value.
C8_RoundTrip ==
    IsSome(c_src) =>
        /\ IsSome(c_in) => Unwrap(c_in) = SV(VariantFor(Unwrap(c_src).type), Unwrap(c_src).val)
        /\ Converted => c_out = Ok(Unwrap(c_src).type, Unwrap(c_src).val)

\* a u32 went through StyleVal and came back
C8_Witness ==
    /\ IsSome(c_src) /\ Unwrap(c_src).type = "u32"
    /\ Converted /\ c_out.kind = "ok"

\* C9: after add(k, v), get(k) is v, every other key reads as before, and no
\* key is removed.
C9_AddLastWriteWins ==
    [][b_style' # b_style \/ b_k' # b_k \/ b_v' # b_v =>
        /\ IsSome(b_k') /\ Style_get(b_style', Unwrap(b_k')) = b_v'
        /\ \A k \in (DOMAIN b_style) \cup BuilderKeys :
               k # Unwrap(b_k') => Style_get(b_style', k) = Style_get(b_style, k)
        /\ DOMAIN b_style \subseteq DOMAIN b_style'
      ]_vars

\* add() replaced the value of a key of the built-in table and added a new key
C9_Witness ==
    /\ b_k = Some(StyleKey_new("Widget", "color", None))
    /\ Style_get(b_style, StyleKey_new("Button", "text_color", None)) = Some(WHITE)
    /\ Style_get(Style_new, StyleKey_new("Button", "text_color", None)) = Some(BLACK)

\* C10: with_class replaces the class string: after a with_class call the
\* class is exactly the string of that call, and a running style_val looks
\* up only the tags of the widget's current class.
C10_WithClassReplaces ==
    [][\A t \in Threads :
        /\ widget'[t].class # widget[t].class
              => widget'[t].class \in {None} \cup {Some(c) : c \in ClassInputs}
        /\ pc'[t] \in {"class_lock", "class_get"}
              => /\ frame'[t].tags = TagsOf(widget'[t])
                 /\ frame'[t].idx \in 1 .. Len(frame'[t].tags)
      ]_vars

\* a widget whose class is "b" resolved a parameter for which only tag "a"
\* has an entry, and did not get that entry
C10_Witness ==
    \E t \in Threads :
        /\ Returned(t) /\ ~Overridden(t) /\ IsSome(CURRENT_STYLE)
        /\ widget[t].class = Some(<<"b">>)
        /\ style_key(frame[t].param, Some(<<"a">>)) \in DOMAIN Table
        /\ style_key(frame[t].param, Some(<<"b">>)) \notin DOMAIN Table
        /\ frame[t].ret # Some(Table[style_key(frame[t].param, Some(<<"a">>))])

\* values a caller can pin a parameter to
PinVals == {BLUE, WHITE}

\* C11: maybe_style(P, None) leaves the widget as it is, an override for P
\* set earlier included; maybe_style(P, Some(v)) leaves it as style(P, v) does.
C11_MaybeStyle ==
    \A t \in Threads : \A p \in Params :
        /\ maybe_style_insert(widget[t], p, None) = widget[t]
        /\ \A v \in PinVals :
               maybe_style_insert(widget[t], p, Some(v)) = style_insert(widget[t], p, v)

\* a widget with a class and an override for "color", on which
\* maybe_style("color", None) is about to act
C11_Witness ==
    \E t \in Threads :
        /\ pc[t] = "idle"
        /\ IsSome(widget[t].class)
        /\ "color" \in DOMAIN widget[t].style_overrides
        /\ maybe_style_insert(widget[t], "color", None) = widget[t]

\* C12: style(P, v) makes v the override of P, replacing the one P had,
\* leaves the override of every other parameter and the class as they were,
\* and so leaves the cascade result of every other parameter unchanged.
C12_StyleInsert ==
    \A t \in Threads : \A p \in Params : \A v \in PinVals :
        LET w == widget[t]
            w2 == style_insert(w, p, v)
        IN  /\ p \in DOMAIN w2.style_overrides /\ w2.style_overrides[p] = v
            /\ w2.class = w.class
            /\ \A q \in Params \ {p} :
                   /\ q \in DOMAIN w2.style_overrides <=> q \in DOMAIN w.style_overrides
                   /\ q \in DOMAIN w.style_overrides
                         => w2.style_overrides[q] = w.style_overrides[q]
                   /\ IsSome(CURRENT_STYLE) => Cascade(Table, w2, q) = Cascade(Table, w, q)

\* a widget that has overrides for both parameters, the one for "color"
\* about to be replaced by another value
C12_Witness ==
    \E t \in Threads :
        /\ pc[t] = "idle" /\ IsSome(CURRENT_STYLE)
        /\ DOMAIN widget[t].style_overrides = Params
        /\ widget[t].style_overrides["color"] = BLUE
        /\ style_insert(widget[t], "color", WHITE).style_overrides["color"] = WHITE

\* C13: the registry is initialised on its first access, to the built-in
\* table, and only once; after that the table changes only by the assignment
\* of set_current_style, so every lookup made before the first install reads
\* the built-in table.
C13_LazyInit ==
    [][/\ IsNone(CURRENT_STYLE) /\ IsSome(CURRENT_STYLE') => CURRENT_STYLE' = Some(Style_default)
       /\ IsSome(CURRENT_STYLE) => IsSome(CURRENT_STYLE')
       /\ IsSome(CURRENT_STYLE) /\ CURRENT_STYLE' # CURRENT_STYLE
             => \E t \in Threads : pc[t] = "set_write" /\ pc'[t] = "idle"
       /\ \A t \in Threads :
              pc'[t] \in {"class_get", "default_get", "set_write"} => IsSome(CURRENT_STYLE')
      ]_vars

\* a query went through its lookups and returned while the registry holds
\* the built-in table
C13_Witness ==
    \E t \in Threads :
        /\ CURRENT_STYLE = Some(Style_default)
        /\ Returned(t) /\ ~Overridden(t)
        /\ frame[t].ret = Cascade(Style_default, widget[t], frame[t].param)

\* the entries of table s whose key has exactly these three fields
Matching(s, c, p, class) ==
    {k \in DOMAIN s : k.struct_name = c /\ k.parameter_name = p /\ k.class = class}
Found(s, c, p, class) ==
    IF Matching(s, c, p, class) = {} THEN None
    ELSE Some(s[CHOOSE k \in Matching(s, c, p, class) : TRUE])

LookupComponents == {"Widget", "Button"}
LookupParams == {"color", "text_color"}
LookupClasses == {<<>>, <<"a">>, <<"b">>, <<"text-white">>}

\* C14: a lookup returns the entry whose key agrees in all three fields and
\* nothing else: the class-less lookup never a class-scoped entry, the class
\* lookup never the class-less entry nor that of another class, and neither
\* an entry of another component type or parameter.
C14_StructuralKeys ==
    \A c \in LookupComponents : \A p \in LookupParams :
        /\ Style_style(b_style, c, p) = Found(b_style, c, p, None)
        /\ Style_get(b_style, StyleKey_new(c, p, None)) = Found(b_style, c, p, None)
        /\ \A class \in LookupClasses :
               /\ Style_style_for_class(b_style, c, p, class) = Found(b_style, c, p, Some(class))
               /\ Cardinality(Matching(b_style, c, p, Some(class))) <= 1

\* a table with a class-scoped entry for Widget.color and no class-less one:
\* the class-less lookup finds nothing, and neither does Button with that class
C14_Witness ==
    /\ IsSome(b_k)
    /\ StyleKey_new("Widget", "color", Some(<<"a">>)) \in DOMAIN b_style
    /\ StyleKey_new("Widget", "color", Some(<<>>)) \in DOMAIN b_style
    /\ Style_style(b_style, "Widget", "color") = None
    /\ Style_style_for_class(b_style, "Button", "color", <<"a">>) = None
    /\ Style_style_for_class(b_style, "Button", "text_color", <<"text-white">>) = Some(WHITE)

\* the whitespace symbols of a class string
Whitespace == {" ", "\t"}

\* the non-empty whitespace-delimited tokens of str, in order of appearance
RECURSIVE WordsFrom(_, _)
WordsFrom(str, cur) ==
    IF str = <<>> THEN (IF cur = <<>> THEN <<>> ELSE <<cur>>)
    ELSE IF Head(str) \in Whitespace
    THEN (IF cur = <<>> THEN <<>> ELSE <<cur>>) \o WordsFrom(Tail(str), <<>>)
    ELSE WordsFrom(Tail(str), Append(cur, Head(str)))
Words(str) == WordsFrom(str, <<>>)

\* C15: the tags a style_val call looks up are exactly the non-empty
\* whitespace-delimited tokens of the class string, in order: no empty tag
\* and no tag containing whitespace is looked up.
C15_WhitespaceSplit ==
    \A t \in Threads :
        pc[t] \in {"class_lock", "class_get"}
            => /\ frame[t].tags = Words(Unwrap(widget[t].class))
               /\ frame[t].tags[frame[t].idx] # <<>>
               /\ \A i \in 1 .. Len(frame[t].tags[frame[t].idx]) :
                      frame[t].tags[frame[t].idx][i] \notin Whitespace

\* C16: an instance whose class is the empty string and that has no override
\* for the parameter resolves it as a class-less instance does: to the
\* class-less entry of the table or to nothing, even when the table has an
\* entry under the empty class tag.
C16_EmptyClass ==
    \A t \in Threads :
        Returned(t) /\ ~Overridden(t) /\ widget[t].class = Some(<<>>)
            => frame[t].ret = DefaultEntry(Table, frame[t].param)

\* the chain of add calls that a sequence of rules stands for
RECURSIVE AddChain(_, _)
AddChain(s, rules) ==
    IF rules = <<>> THEN s
    ELSE AddChain(Style_add(s,
                            StyleKey_new(Head(rules).component, Head(rules).param,
                                         IF IsSome(Head(rules).class)
                                         THEN Some(<<Unwrap(Head(rules).class)>>) ELSE None),
                            Into_StyleVal(Head(rules).T, Head(rules).val)),
                  Tail(rules))

\* C17: tables are equal when they hold the same entries, whatever the order
\* they were added in: adding two pairs with distinct keys to a table in
\* either order gives equal tables with the same result for every lookup, and
\* the table the style! macro produces equals the equivalent chain of add calls.
C17_OrderIndependent ==
    /\ \A k1 \in BuilderKeys, k2 \in BuilderKeys, v1 \in ThemeVals, v2 \in ThemeVals :
           k1 # k2 =>
               LET s12 == Style_add(Style_add(b_style, k1, v1), k2, v2)
                   s21 == Style_add(Style_add(b_style, k2, v2), k1, v1)
               IN  /\ s12 = s21
                   /\ \A k \in BuilderKeys : Style_get(s12, k) = Style_get(s21, k)
                   /\ Style_get(s12, k1) = Some(v1) /\ Style_get(s12, k2) = Some(v2)
    /\ \A tt \in RuleSeqs : style_macro(tt) = AddChain(Style_new, tt)
    /\ style_macro(test_style_macro_rules) = test_style

\* a table built by two adds with distinct keys, the class-scoped one last,
\* equals the table built the other way round
C17_Witness ==
    /\ b_k = Some(StyleKey_new("Widget", "color", Some(<<"a">>))) /\ b_v = Some(BLACK)
    /\ b_style = Style_add(Style_add(Style_new, StyleKey_new("Widget", "color", None), WHITE),
                           StyleKey_new("Widget", "color", Some(<<"a">>)), BLACK)
    /\ b_style = Style_add(Style_add(Style_new, StyleKey_new("Widget", "color", Some(<<"a">>)), BLACK),
                           StyleKey_new("Widget", "color", None), WHITE)
    /\ style_macro(test_style_macro_rules) = test_style

\* C18: while the registry holds the built-in table, every component type and
\* parameter that has a class-scoped entry also has its class-less entry, so
\* the class-less lookup of such a parameter finds a value.
C18_DefaultBaseline ==
    CURRENT_STYLE = Some(Style_default)
        => \A k \in DOMAIN Table :
               IsSome(k.class)
                   => /\ StyleKey_new(k.struct_name, k.parameter_name, None) \in DOMAIN Table
                      /\ IsSome(Style_style(Table, k.struct_name, k.parameter_name))

\* where a thread is inside the registry's critical section: one table lookup
\* or the one assignment of an install
Holding(t) == pc[t] \in {"class_get", "default_get", "set_write"}

\* C19: the registry lock is held by a thread exactly while it makes one
\* table lookup or one table swap. It is not held between two lookups of a
\* style_val call, nor by a thread about to request it, nor while the
\* override tier is evaluated (the step out of idle) or the result is used
\* by the caller (returned).
C19_LockScope ==
    /\ lock \in Threads \cup {NoThread}
    /\ \A t \in Threads :
           /\ lock = t <=> Holding(t)
           /\ pc[t] \in {"idle", "class_lock", "default_lock", "returned"} => lock # t

\* a thread holds the lock for the lookup of its second tag, having released
\* it after the first, while another thread waits to make its own lookup
C19_Witness ==
    \E t \in Threads, u \in Threads :
        /\ t # u
        /\ lock = t /\ pc[t] = "class_get" /\ frame[t].idx = 2
        /\ pc[u] \in {"class_lock", "default_lock"}

\* the tables the registry may hold: the built-in one and those handed to
\* set_current_style
WholeTables == {Style_default} \cup ConcThemes

\* C20: under any interleaving of installs and queries of several threads the
\* registry, once initialised, holds one whole table: the built-in table or a
\* table that was passed to set_current_style, never a mix of two. Each
\* change of the table makes it the argument of the install that takes the
\* step, so after several installs the table is the argument of one of them.
C20_RegistryAtomic ==
    /\ [](IsSome(CURRENT_STYLE) => Table \in WholeTables)
    /\ [][CURRENT_STYLE' # CURRENT_STYLE
            => \/ IsNone(CURRENT_STYLE) /\ CURRENT_STYLE' = Some(Style_default)
               \/ \E t \in Threads :
                      /\ pc[t] = "set_write" /\ pc'[t] = "idle"
                      /\ CURRENT_STYLE' = frame[t].s
                      /\ Unwrap(frame[t].s) \in ConcThemes]_vars

\* an installed table is in place and one thread is in the middle of
\* installing a different one while another waits to make a lookup
C20_Witness ==
    \E t \in Threads, u \in Threads :
        /\ t # u
        /\ IsSome(CURRENT_STYLE) /\ Table \in ConcThemes
        /\ pc[t] = "set_write" /\ frame[t].s # CURRENT_STYLE
        /\ pc[u] \in {"class_lock", "default_lock"}

\* the entries of table T that a query of widget w for parameter p can reach:
\* the class-less one and those of the tags of its class
Reachable(T, w, p) ==
    {k \in DOMAIN T :
        /\ k.struct_name = name /\ k.parameter_name = p
        /\ \/ IsNone(k.class)
           \/ \E i \in 1 .. Len(TagsOf(w)) : k.class = Some(TagsOf(w)[i])}

\* C21: a value that style_val returns is one stored value, whole: the
\* override of the parameter, or the value of one single entry of a table the
\* registry can hold during the call. It is never put together from several
\* entries, such as the top of one tag's border width and the bottom of
\* another's.
C21_NoMerge ==
    \A t \in Threads :
        Returned(t) /\ IsSome(frame[t].ret)
            => IF Overridden(t)
               THEN frame[t].ret = Some(widget[t].style_overrides[frame[t].param])
               ELSE \E T \in {Style_default} \cup BorderThemes :
                        \E k \in Reachable(T, widget[t], frame[t].param) :
                            frame[t].ret = Some(T[k])

\* both tags of the class have an entry, with border widths that differ in
\* top and bottom, and the call returned the first tag's value whole
C21_Witness ==
    \E t \in Threads :
        /\ Returned(t) /\ ~Overridden(t) /\ Table = ThemeBorder
        /\ TagsOf(widget[t]) = <<(<<"t2">>), (<<"b2">>)>>
        /\ frame[t].ret = Some(BORDER_T2)

\* a thread that has asked for the registry lock and does not have it yet
Waiting(t) == pc[t] \in {"class_lock", "default_lock", "set_lock"}

EffectiveTable == IF IsSome(CURRENT_STYLE) THEN Table ELSE Style_default

\* a step of a style_val call of thread t
StyleValStep(t) ==
    \/ pc[t] = "idle" /\ pc'[t] \in {"class_lock", "default_lock", "returned"}
    \/ InFlight(t) /\ pc'[t] # pc[t]

\* C23: no step of a style_val call changes the class string or the override
\* set of the instance or the table of the registry, and the value the call
\* returns is determined by these three and the parameter alone, so that the
\* same call made again with no builder call or install in between returns
\* the same value.
C23_PureRead ==
    [][\A t \in Threads :
          StyleValStep(t)
              => /\ widget' = widget
                 /\ EffectiveTable' = EffectiveTable
                 /\ pc'[t] = "returned"
                        => frame'[t].ret = Cascade(EffectiveTable, widget[t], frame'[t].param)
      ]_vars

\* a call on an instance with a class and an override of another parameter
\* returned a class-tier value of an installed table, and the override set
\* still has just that other parameter
C23_Witness ==
    \E t \in Threads :
        /\ Returned(t) /\ ~Overridden(t) /\ IsSome(CURRENT_STYLE) /\ Table # Style_default
        /\ Hits(Table, widget[t], frame[t].param) # {}
        /\ DOMAIN widget[t].style_overrides = Params \ {frame[t].param}
        /\ IsSome(frame[t].ret)

\* C24: a table built as Style::new() followed by add calls, by hand or by
\* the style! macro, holds every entry of the built-in table whose key was
\* not added again, so a lookup of such a key in the custom table gives the
\* built-in value and not None.
C24_NewIsDefault ==
    /\ Style_new # EmptyMap
    /\ \A k \in DOMAIN Style_default :
           /\ k \in DOMAIN b_style
           /\ k \notin BuilderKeys => Style_get(b_style, k) = Some(Style_default[k])
    /\ Style_style(b_style, "Button", "font_size") = Some(SV("Float", "12.0"))
    /\ \A tt \in RuleSeqs :
           LET s == style_macro(tt)
           IN  /\ DOMAIN Style_default \subseteq DOMAIN s
               /\ [k \in DOMAIN Style_default |-> s[k]] = Style_default

\* a custom table with two entries added for Widget, one without and one
\* with a class, still answers for Button.font_size
C24_Witness ==
    /\ IsSome(b_k)
    /\ Style_style(b_style, "Widget", "color") = Some(WHITE)
    /\ Style_style_for_class(b_style, "Widget", "color", <<"b">>) = Some(BLACK)
    /\ b_style # Style_default
    /\ Style_style(b_style, "Button", "font_size") = Some(SV("Float", "12.0"))

\* thread t has ended in a panic
Panicked(t) == pc[t] = "panicked"

\* C25: a thread that ends in the panic of a failed conversion does so after
\* style_val has returned and without the registry lock, so the lock is left
\* neither held nor poisoned; with a thread gone that way, the style_val and
\* set_current_style calls of the other threads still complete.
C25_PanicOutsideLock ==
    /\ [][\A t \in Threads :
             Panicked(t)' /\ ~Panicked(t) => Returned(t) /\ lock # t /\ lock' = lock]_vars
    /\ [](\A t \in Threads : Panicked(t) => lock # t /\ ~Holding(t))
    /\ \A u \in Threads :
           ((\E t \in Threads : Panicked(t)) /\ pc[u] \in {"class_lock", "default_lock"})
               ~> Returned(u)
    /\ \A u \in Threads :
           ((\E t \in Threads : Panicked(t)) /\ pc[u] = "set_lock") ~> (pc[u] = "idle")

\* one thread has ended in a panic and another is inside the critical
\* section of an install
C25_Witness ==
    \E t \in Threads, u \in Threads :
        /\ Panicked(t)
        /\ lock = u /\ pc[u] = "set_write"

\* C26: while the registry holds the built-in table, every entry for the
\* parameter font_size, of any component type and class, is a Float, so
\* that converting it to a float succeeds.
C26_FontSizeFloat ==
    CURRENT_STYLE = Some(Style_default)
        => \A k \in DOMAIN Table :
               k.parameter_name = "font_size"
                   => /\ Table[k].variant = "Float"
                      /\ StyleVal_accessor("f32", Table[k]).kind = "ok"
                      /\ From_StyleVal("f64", Table[k]).kind = "ok"

====
